---- MODULE Spec2Model ----
(***************************************************************************)
(* Model of examples/mgmt-lqi.js: the DeconzTest discovery run.  It reads  *)
(* the PARAM table of coordinator parameters one at a time and then walks  *)
(* the coordinator's neighbor table with Management LQI requests, driven   *)
(* by the frames the deCONZ codec decodes from the serial port.            *)
(***************************************************************************)
EXTENDS Integers, Sequences, FiniteSets, TLC

VARIABLES
  pc,                           \* "constructed" | "running" | "failed"
  PARAM,                        \* the descriptor table (module constant PARAM)
  coordinator,                  \* which coordinator the port talks to (see Inbound)
  paramIdx,                     \* this.paramIdx
  fields,                       \* this[fieldName], one slot per parameter
  deviceStateUpdateInProgress,  \* this.deviceStateUpdateInProgress
  node16,                       \* this.node16
  node64,                       \* this.node64
  inbox,                        \* the decoded frame handed to the frame_object listener
  sent,                         \* frames given to serialport.write since the last decoded frame
  caught,                       \* the listener's catch block ran for the last frame
  doneCount,                    \* number of demoDone() calls
  closed,                       \* the serial port has finished closing
  readsSent,                    \* number of READ_PARAMETER frames given to sendFrame
  lastStart                     \* startIndex of the latest LQI request given to sendFrame

vars == <<pc, PARAM, coordinator, paramIdx, fields, deviceStateUpdateInProgress,
          node16, node64, inbox, sent, caught, doneCount, closed, readsSent, lastStart>>

-----------------------------------------------------------------------------
(* Bounds of the exploration *)

MaxEntries == 3    \* largest numEntries a response reports
MaxPage == 1       \* largest numEntriesThisResponse
MaxDone == 2       \* frames stop arriving after this many demoDone() calls

-----------------------------------------------------------------------------
(* Values *)

undefined == "undefined"

\* The parameters whose stored value the program reads back: macAddress is the
\* destination of every LQI request, scanChannels is formatted by dumpParameters.
ParamIds == <<"MAC_ADDRESS", "SCAN_CHANNELS">>

FieldIds == {ParamIds[i] : i \in 1..Len(ParamIds)}

\* What a READ_PARAMETER response carries for the parameter it answers.
Values == {"v1"}

Addr16 == {"a1", "a2"}
Addr64 == {"x1", "x2"}

\* The descriptor tables explored: the sub-sequences of ParamIds, in the order
\* of the source's table, the empty table included.
RECURSIVE SubTables(_)
SubTables(n) ==
  IF n = 0 THEN {<<>>}
  ELSE LET rest == SubTables(n - 1)
       IN  rest \cup {t \o <<ParamIds[n]>> : t \in rest}

Tables == SubTables(Len(ParamIds))

NoNode == [id |-> 0, addr64 |-> "none", addr16 |-> "none"]

NoFrame == [type |-> "none"]

-----------------------------------------------------------------------------
(* Outbound frames *)

ReadParameterFrame(paramId) == [type |-> "READ_PARAMETER", paramId |-> paramId]

ConfirmFrame == [type |-> "APS_DATA_CONFIRM"]

IndicationFrame == [type |-> "APS_DATA_INDICATION"]

LqiRequest(mac, startIndex) ==
  [type |-> "APS_DATA_REQUEST", destination64 |-> mac, destination16 |-> "0000",
   clusterId |-> "MANAGEMENT_LQI_REQUEST", startIndex |-> startIndex]

managementLqi(mac, startIndex) == <<LqiRequest(mac, startIndex)>>

\* readParameter without its end-of-table case.
readParameter_noWalk(table, mac, idx) ==
  IF idx >= Len(table)
  THEN <<>>
  ELSE <<ReadParameterFrame(table[idx + 1])>>

\* readParameter asking for the first descriptor whatever the cursor is.
readParameter_first(table, mac, idx) ==
  IF idx >= Len(table)
  THEN managementLqi(mac, 0)
  ELSE <<ReadParameterFrame(table[1])>>

readParameter(table, mac, idx) ==
  IF idx >= Len(table)
  THEN managementLqi(mac, 0)
  ELSE <<ReadParameterFrame(table[idx + 1])>>

\* sendFrame, as seen by the two counters: the READ_PARAMETER frames among
\* the frames written, and the startIndex of the last LQI request among them.
ReadsIn(out) == Cardinality({i \in 1..Len(out) : out[i].type = "READ_PARAMETER"})

LastStartIn(out, prev) ==
  LET reqs == {i \in 1..Len(out) : out[i].type = "APS_DATA_REQUEST"}
  IN  IF reqs = {} THEN prev
      ELSE out[CHOOSE i \in reqs : \A j \in reqs : j <= i].startIndex

-----------------------------------------------------------------------------
(* Inbound frames *)

Neighbor(p) == [addr16 |-> p[1], addr64 |-> p[2]]

\* Neighbor lists for a response announcing n entries: n entries, or one short.
NeighborLists(ps, n) ==
  LET lens == {k \in {n - 1, n} : k >= 0}
  IN  UNION {[1..k -> {Neighbor(p) : p \in ps}] : k \in lens}

Frame(type, dc, di, paramId, value, clusterId, startIndex, nThis, numEntries, neighbors) ==
  [type |-> type, dataConfirm |-> dc, dataIndication |-> di,
   paramId |-> paramId, value |-> value, clusterId |-> clusterId,
   startIndex |-> startIndex, numEntriesThisResponse |-> nThis,
   numEntries |-> numEntries, neighbors |-> neighbors]

ParameterResponses ==
  {Frame("READ_PARAMETER", dc, di, p, v, "none", 0, 0, 0, <<>>) :
     dc \in BOOLEAN, di \in BOOLEAN, p \in FieldIds, v \in Values}

StateFrames ==
  {Frame(t, dc, di, "none", undefined, "OTHER", 0, 0, 0, <<>>) :
     t \in {"APS_DATA_INDICATION", "APS_DATA_CONFIRM", "DEVICE_STATE_CHANGED"},
     dc \in BOOLEAN, di \in BOOLEAN}

LqiResponses(flags, sizes, ps) ==
  UNION {
    {Frame("APS_DATA_INDICATION", dc, di, "none", undefined,
           "MANAGEMENT_LQI_RESPONSE", s, n, e, nl) :
       dc \in flags, di \in flags, s \in 0..(MaxEntries - 1), e \in sizes,
       nl \in NeighborLists(ps, n)} : n \in 0..MaxPage}

\* A coordinator with one neighbor that sets the device-state flags on its frames.
ChattyFrames ==
  ParameterResponses \cup StateFrames \cup
  LqiResponses(BOOLEAN, 0..MaxEntries, {<<"a1", "x1">>})

\* A coordinator with a table of MaxEntries neighbors (addresses may be reassigned
\* between responses) that sends neighbor-table responses only, no flag set.
PopulousFrames == LqiResponses({FALSE}, {MaxEntries}, Addr16 \X Addr64)

Inbound(c) == IF c = "chatty" THEN ChattyFrames ELSE PopulousFrames

IsLqiResponse(f) ==
  f.type = "APS_DATA_INDICATION" /\ f.clusterId = "MANAGEMENT_LQI_RESPONSE"

-----------------------------------------------------------------------------
(* Node registry *)

LiveIds(n16, n64) ==
  ({n16[a].id : a \in Addr16} \cup {n64[a].id : a \in Addr64}) \ {0}

\* new Node(...): an object distinct from every Node still referenced.
NewNode(n16, n64, addr64, addr16) ==
  LET live == LiveIds(n16, n64)
      id == CHOOSE i \in 1..(Cardinality(live) + 1) :
              i \notin live /\ \A j \in 1..(i - 1) : j \in live
  IN  [id |-> id, addr64 |-> addr64, addr16 |-> addr16]

\* The loop body assigning node64 only where it holds no Node yet.
registerNeighbor_keep64(reg, neighbor) ==
  LET node == NewNode(reg.node16, reg.node64, neighbor.addr64, neighbor.addr16)
  IN  [node16 |-> [reg.node16 EXCEPT ![neighbor.addr16] = node],
       node64 |-> IF reg.node64[neighbor.addr64] = NoNode
                  THEN [reg.node64 EXCEPT ![neighbor.addr64] = node]
                  ELSE reg.node64,
       threw |-> FALSE]

\* One pass of the loop body of handleManagementLqiResponse.
registerNeighbor(reg, neighbor) ==
  LET node == NewNode(reg.node16, reg.node64, neighbor.addr64, neighbor.addr16)
  IN  [node16 |-> [reg.node16 EXCEPT ![neighbor.addr16] = node],
       node64 |-> [reg.node64 EXCEPT ![neighbor.addr64] = node],
       threw |-> FALSE]

\* The for loop: frame.neighbors[idx] is undefined past the end of the list and
\* reading its addr64 throws, leaving the entries registered so far in place.
RECURSIVE registerLoop(_, _, _)
registerLoop(reg, f, idx) ==
  IF idx >= f.numEntriesThisResponse THEN reg
  ELSE IF idx >= Len(f.neighbors) THEN [reg EXCEPT !.threw = TRUE]
  ELSE registerLoop(registerNeighbor(reg, f.neighbors[idx + 1]), f, idx + 1)

-----------------------------------------------------------------------------
(* handleFrame *)

\* Lines 154-157: a data indication or data confirm ends the exchange in progress.
clearInProgress(f, inProgress) ==
  IF f.type = "APS_DATA_INDICATION" \/ f.type = "APS_DATA_CONFIRM"
  THEN FALSE
  ELSE inProgress

\* The device-state check with the confirm branch leaving the flag alone.
deviceStateCheck_noFlag(f, inProgress) ==
  IF f.dataConfirm
  THEN [inProgress |-> inProgress, out |-> <<ConfirmFrame>>]
  ELSE IF ~inProgress /\ f.dataIndication
  THEN [inProgress |-> TRUE, out |-> <<IndicationFrame>>]
  ELSE [inProgress |-> inProgress, out |-> <<>>]

\* The device-state check fetching indications whatever the flag says.
deviceStateCheck_noGate(f, inProgress) ==
  IF f.dataConfirm
  THEN [inProgress |-> TRUE, out |-> <<ConfirmFrame>>]
  ELSE IF f.dataIndication
  THEN [inProgress |-> TRUE, out |-> <<IndicationFrame>>]
  ELSE [inProgress |-> inProgress, out |-> <<>>]

\* Lines 159-173: the device-state flags of the frame.
deviceStateCheck(f, inProgress) ==
  IF f.dataConfirm
  THEN [inProgress |-> TRUE, out |-> <<ConfirmFrame>>]
  ELSE IF ~inProgress /\ f.dataIndication
  THEN [inProgress |-> TRUE, out |-> <<IndicationFrame>>]
  ELSE [inProgress |-> inProgress, out |-> <<>>]

\* dumpParameters throws when it formats a scanChannels that was never stored.
dumpParametersThrows(table, flds) ==
  \E i \in 1..Len(table) : table[i] = "SCAN_CHANNELS" /\ flds[table[i]] = undefined

\* The value the response holds under the field name of the expected parameter.
frameField(f, paramId) == IF f.paramId = paramId THEN f.value ELSE undefined

Unchanged(idx, flds, n16, n64) ==
  [paramIdx |-> idx, fields |-> flds, node16 |-> n16, node64 |-> n64,
   out |-> <<>>, done |-> 0, threw |-> FALSE]

\* The parameter branch without paramIdx++.
handleReadParameter_noAdvance(f, table, idx, flds, n16, n64) ==
  IF idx < Len(table)
  THEN LET paramId == table[idx + 1]
           flds2 == [flds EXCEPT ![paramId] = frameField(f, paramId)]
           base == Unchanged(idx, flds2, n16, n64)
       IN  [base EXCEPT !.out = readParameter(table, flds2["MAC_ADDRESS"], idx)]
  ELSE Unchanged(idx, flds, n16, n64)

\* Lines 175-192.
handleReadParameter(f, table, idx, flds, n16, n64) ==
  IF idx < Len(table)
  THEN LET paramId == table[idx + 1]
           flds2 == [flds EXCEPT ![paramId] = frameField(f, paramId)]
           idx2 == idx + 1
           base == Unchanged(idx2, flds2, n16, n64)
       IN  IF idx2 = Len(table)
           THEN IF dumpParametersThrows(table, flds2)
                THEN [base EXCEPT !.threw = TRUE]
                ELSE [base EXCEPT !.out = <<LqiRequest(flds2["MAC_ADDRESS"], 0)>>]
           ELSE [base EXCEPT !.out = readParameter(table, flds2["MAC_ADDRESS"], idx2)]
  ELSE Unchanged(idx, flds, n16, n64)

\* The response handler comparing with <= instead of <.
handleManagementLqiResponse_le(f, idx, flds, n16, n64) ==
  LET reg == registerLoop([node16 |-> n16, node64 |-> n64, threw |-> FALSE], f, 0)
      base == Unchanged(idx, flds, reg.node16, reg.node64)
      nextStartIndex == f.startIndex + f.numEntriesThisResponse
  IN  IF reg.threw THEN [base EXCEPT !.threw = TRUE]
      ELSE IF nextStartIndex <= f.numEntries
      THEN [base EXCEPT !.out = managementLqi(flds["MAC_ADDRESS"], nextStartIndex)]
      ELSE [base EXCEPT !.done = 1]

\* The response handler asking again for the startIndex of the response.
handleManagementLqiResponse_noAdd(f, idx, flds, n16, n64) ==
  LET reg == registerLoop([node16 |-> n16, node64 |-> n64, threw |-> FALSE], f, 0)
      base == Unchanged(idx, flds, reg.node16, reg.node64)
      nextStartIndex == f.startIndex
  IN  IF reg.threw THEN [base EXCEPT !.threw = TRUE]
      ELSE IF nextStartIndex < f.numEntries
      THEN [base EXCEPT !.out = managementLqi(flds["MAC_ADDRESS"], nextStartIndex)]
      ELSE [base EXCEPT !.done = 1]

\* Lines 212-226.
handleManagementLqiResponse(f, idx, flds, n16, n64) ==
  LET reg == registerLoop([node16 |-> n16, node64 |-> n64, threw |-> FALSE], f, 0)
      base == Unchanged(idx, flds, reg.node16, reg.node64)
      nextStartIndex == f.startIndex + f.numEntriesThisResponse
  IN  IF reg.threw THEN [base EXCEPT !.threw = TRUE]
      ELSE IF nextStartIndex < f.numEntries
      THEN [base EXCEPT !.out = managementLqi(flds["MAC_ADDRESS"], nextStartIndex)]
      ELSE [base EXCEPT !.done = 1]

\* Lines 175-198: the frame is routed by its type.
route(f, table, idx, flds, n16, n64) ==
  IF f.type = "READ_PARAMETER"
  THEN handleReadParameter(f, table, idx, flds, n16, n64)
  ELSE IF IsLqiResponse(f)
  THEN handleManagementLqiResponse(f, idx, flds, n16, n64)
  ELSE Unchanged(idx, flds, n16, n64)

-----------------------------------------------------------------------------
(* State machine *)

Scenarios == {<<t, "chatty">> : t \in Tables} \cup {<<<<>>, "populous">>}

Init ==
  /\ pc = "constructed"
  /\ \E sc \in Scenarios : PARAM = sc[1] /\ coordinator = sc[2]
  /\ paramIdx = -1
  /\ fields = [p \in FieldIds |-> undefined]
  /\ deviceStateUpdateInProgress = FALSE
  /\ node16 = [a \in Addr16 |-> NoNode]
  /\ node64 = [a \in Addr64 |-> NoNode]
  /\ inbox = NoFrame
  /\ sent = <<>>
  /\ caught = FALSE
  /\ doneCount = 0
  /\ closed = FALSE
  /\ readsSent = 0
  /\ lastStart = -1

\* The port opened: the data listener is installed and readParameters() runs.
Start ==
  /\ pc = "constructed"
  /\ pc' = "running"
  /\ paramIdx' = 0
  /\ sent' = readParameter(PARAM, fields["MAC_ADDRESS"], 0)
  /\ readsSent' = readsSent + ReadsIn(sent')
  /\ lastStart' = LastStartIn(sent', lastStart)
  /\ UNCHANGED <<PARAM, coordinator, fields, deviceStateUpdateInProgress, node16, node64,
                 inbox, caught, doneCount, closed>>

\* The port failed to open: nothing is ever read or written.
OpenError ==
  /\ pc = "constructed"
  /\ pc' = "failed"
  /\ UNCHANGED <<PARAM, coordinator, paramIdx, fields, deviceStateUpdateInProgress, node16,
                 node64, inbox, sent, caught, doneCount, closed, readsSent, lastStart>>

\* The codec decodes the next frame of the byte stream and emits frame_object.
Receive(f) ==
  /\ pc = "running"
  /\ inbox = NoFrame
  /\ ~closed
  /\ doneCount < MaxDone
  /\ inbox' = f
  /\ sent' = <<>>
  /\ caught' = FALSE
  /\ UNCHANGED <<pc, PARAM, coordinator, paramIdx, fields, deviceStateUpdateInProgress,
                 node16, node64, doneCount, closed, readsSent, lastStart>>

\* handleFrame routing the frame before it looks at the device-state flags.
HandleFrame_routeFirst ==
  /\ pc = "running"
  /\ inbox # NoFrame
  /\ LET f == inbox
         ds == deviceStateCheck(f, clearInProgress(f, deviceStateUpdateInProgress))
         r == route(f, PARAM, paramIdx, fields, node16, node64)
     IN  /\ deviceStateUpdateInProgress' = ds.inProgress
         /\ paramIdx' = r.paramIdx
         /\ fields' = r.fields
         /\ node16' = r.node16
         /\ node64' = r.node64
         /\ sent' = r.out \o ds.out
         /\ caught' = r.threw
         /\ doneCount' = doneCount + r.done
  /\ readsSent' = readsSent + ReadsIn(sent')
  /\ lastStart' = LastStartIn(sent', lastStart)
  /\ inbox' = NoFrame
  /\ UNCHANGED <<pc, PARAM, coordinator, closed>>

\* The frame_object listener: handleFrame(frame) inside try/catch.
HandleFrame ==
  /\ pc = "running"
  /\ inbox # NoFrame
  /\ LET f == inbox
         ds == deviceStateCheck(f, clearInProgress(f, deviceStateUpdateInProgress))
         r == route(f, PARAM, paramIdx, fields, node16, node64)
     IN  /\ deviceStateUpdateInProgress' = ds.inProgress
         /\ paramIdx' = r.paramIdx
         /\ fields' = r.fields
         /\ node16' = r.node16
         /\ node64' = r.node64
         /\ sent' = ds.out \o r.out
         /\ caught' = r.threw
         /\ doneCount' = doneCount + r.done
  /\ readsSent' = readsSent + ReadsIn(sent')
  /\ lastStart' = LastStartIn(sent', lastStart)
  /\ inbox' = NoFrame
  /\ UNCHANGED <<pc, PARAM, coordinator, closed>>

\* serialport.close() completes: no further data events.
PortClosed ==
  /\ pc = "running"
  /\ doneCount > 0
  /\ ~closed
  /\ inbox = NoFrame
  /\ closed' = TRUE
  /\ UNCHANGED <<pc, PARAM, coordinator, paramIdx, fields, deviceStateUpdateInProgress,
                 node16, node64, inbox, sent, caught, doneCount, readsSent, lastStart>>

Next ==
  \/ Start
  \/ OpenError
  \/ \E f \in Inbound(coordinator) : Receive(f)
  \/ HandleFrame
  \/ PortClosed

Spec == Init /\ [][Next]_vars

-----------------------------------------------------------------------------
(* The run against a cooperative coordinator *)

\* f answers the read-parameter or neighbor-table request written last: the
\* value of the parameter asked for, or the page of the table that starts at
\* the startIndex asked for, with as many neighbors as it announces, at least
\* one of them unless the page reaches the end of the table.
Conforms(f) ==
  \E i \in 1..Len(sent) :
    \/ /\ sent[i].type = "READ_PARAMETER"
       /\ f.type = "READ_PARAMETER"
       /\ f.paramId = sent[i].paramId
    \/ /\ sent[i].type = "APS_DATA_REQUEST"
       /\ IsLqiResponse(f)
       /\ f.startIndex = sent[i].startIndex
       /\ Len(f.neighbors) = f.numEntriesThisResponse
       /\ \/ f.numEntriesThisResponse >= 1
          \/ f.startIndex + f.numEntriesThisResponse >= f.numEntries

\* The coordinator answers the outstanding request, once.
Answer(f) == Conforms(f) /\ Receive(f)

NextCoop ==
  \/ Start
  \/ OpenError
  \/ \E f \in Inbound(coordinator) : Answer(f)
  \/ HandleFrame
  \/ PortClosed

\* Every decoded frame is handed to the listener, and every request is
\* eventually answered.
SpecCoop ==
  /\ Init /\ [][NextCoop]_vars
  /\ WF_vars(HandleFrame)
  /\ WF_vars(\E f \in Inbound(coordinator) : Answer(f))

-----------------------------------------------------------------------------
(* Vocabulary of the properties *)

\* A step of the frame_object listener: the frame in the inbox is handled.
HandleStep == pc = "running" /\ inbox # NoFrame /\ inbox' = NoFrame

\* The states of the discovery run, read off the program's variables.
Phase ==
  IF doneCount > 0 THEN "Done"
  ELSE IF paramIdx < Len(PARAM) THEN "ReadingParameters"
  ELSE "WalkingNeighbors"

OfType(s, t) == {i \in 1..Len(s) : s[i].type = t}

LqiRequests(s) == OfType(s, "APS_DATA_REQUEST")

\* An inbound parameter-read response that the handler accepts.
Accepted == HandleStep /\ inbox.type = "READ_PARAMETER" /\ paramIdx < Len(PARAM)

\* The Nodes a registry holds.
NodesOf(n16, n64) ==
  ({n16[a] : a \in Addr16} \cup {n64[a] : a \in Addr64}) \ {NoNode}

-----------------------------------------------------------------------------
(* Properties *)

\* C1: the completion action (dump registry, close transport) runs at most
\* once in a run; no later frame causes a second invocation.
C1_DoneOnce == doneCount <= 1

C3_IdleTolerance ==
  [][(/\ HandleStep
      /\ ~inbox.dataConfirm /\ ~inbox.dataIndication
      /\ \/ IsLqiResponse(inbox) /\ Phase # "WalkingNeighbors"
         \/ inbox.type = "READ_PARAMETER" /\ Phase # "ReadingParameters") =>
       /\ UNCHANGED <<paramIdx, fields, node16, node64, doneCount>>
       /\ sent' = <<>>]_vars

\* C4: once started the cursor stays within 0..length(PARAM); an accepted
\* parameter-read response raises it by exactly one, and no other step
\* changes it.
C4_CursorMonotonic ==
  [][/\ pc' = "running" => (0 <= paramIdx' /\ paramIdx' <= Len(PARAM'))
     /\ Accepted => paramIdx' = paramIdx + 1
     /\ (pc = "running" /\ ~Accepted) => paramIdx' = paramIdx]_vars

C4_Witness ==
  /\ pc = "running" /\ inbox = NoFrame
  /\ Len(PARAM) = 2 /\ paramIdx = 2
  /\ fields["MAC_ADDRESS"] = "v1" /\ fields["SCAN_CHANNELS"] = "v1"

\* C5: with N >= 1 descriptors, handling a parameter-read response emits a
\* neighbor-table request exactly when it is the N-th accepted one, and then
\* exactly one, for startIndex 0; later parameter-read responses emit none.
C5_OneTransition ==
  [][(HandleStep /\ inbox.type = "READ_PARAMETER" /\ Len(PARAM) >= 1) =>
       /\ Cardinality(LqiRequests(sent')) =
            (IF paramIdx = Len(PARAM) - 1 THEN 1 ELSE 0)
       /\ \A i \in LqiRequests(sent') : sent'[i].startIndex = 0]_vars

\* C6 as stated: every neighbor-table response (startIndex, n, numEntries)
\* with startIndex + n < numEntries is answered by exactly one request for
\* startIndex + n and no completion; every other one by no request and the
\* completion.
C6_Pagination ==
  [][(HandleStep /\ IsLqiResponse(inbox)) =>
       LET next == inbox.startIndex + inbox.numEntriesThisResponse
       IN  IF next < inbox.numEntries
           THEN /\ Cardinality(LqiRequests(sent')) = 1
                /\ \A i \in LqiRequests(sent') : sent'[i].startIndex = next
                /\ doneCount' = doneCount
           ELSE /\ LqiRequests(sent') = {}
                /\ doneCount' = doneCount + 1]_vars

\* C6 amended: the above holds for every response whose neighbor list holds
\* at least numEntriesThisResponse entries; a response with a shorter list
\* raises a handling fault, and is answered by no request and no completion.
C6_PaginationWellFormed ==
  [][(HandleStep /\ IsLqiResponse(inbox)) =>
       LET next == inbox.startIndex + inbox.numEntriesThisResponse
       IN  IF Len(inbox.neighbors) < inbox.numEntriesThisResponse
           THEN /\ LqiRequests(sent') = {}
                /\ doneCount' = doneCount
                /\ caught'
           ELSE IF next < inbox.numEntries
           THEN /\ Cardinality(LqiRequests(sent')) = 1
                /\ \A i \in LqiRequests(sent') : sent'[i].startIndex = next
                /\ doneCount' = doneCount
                /\ ~caught'
           ELSE /\ LqiRequests(sent') = {}
                /\ doneCount' = doneCount + 1
                /\ ~caught']_vars

C6_Witness ==
  /\ pc = "running" /\ inbox = NoFrame /\ ~caught
  /\ doneCount = 0
  /\ sent = <<LqiRequest(undefined, MaxEntries - 1)>>
  /\ node16["a1"] # NoNode

\* A response that registers the pair (s, l) once and touches neither address
\* again, received while both mappings hold one Node for that pair.
ReRegisters(s, l) ==
  /\ HandleStep /\ IsLqiResponse(inbox)
  /\ node16[s] # NoNode /\ node16[s] = node64[l]
  /\ node16[s].addr16 = s /\ node16[s].addr64 = l
  /\ LET k == IF Len(inbox.neighbors) < inbox.numEntriesThisResponse
              THEN Len(inbox.neighbors) ELSE inbox.numEntriesThisResponse
         hits == {i \in 1..k : inbox.neighbors[i].addr16 = s \/
                               inbox.neighbors[i].addr64 = l}
     IN  /\ Cardinality(hits) = 1
         /\ \A i \in hits : inbox.neighbors[i] = Neighbor(<<s, l>>)

C8_RegistryConsistency ==
  /\ \A a \in Addr16 : node16[a] # NoNode => node64[node16[a].addr64] = node16[a]
  /\ \A a \in Addr64 : node64[a] # NoNode => node16[node64[a].addr16] = node64[a]

\* C9: start() sets the cursor to 0 and emits exactly one frame: the
\* read-parameter frame of descriptor 0, or, with no descriptor, the
\* neighbor-table request for startIndex 0.
C9_StartEmitsOne ==
  [][(pc = "constructed" /\ pc' = "running") =>
       /\ paramIdx' = 0
       /\ Len(sent') = 1
       /\ IF Len(PARAM) >= 1
          THEN sent'[1] = ReadParameterFrame(PARAM[1])
          ELSE sent'[1] = LqiRequest(undefined, 0)]_vars

C9_Witness ==
  /\ pc = "running" /\ inbox = NoFrame
  /\ PARAM = <<>> /\ paramIdx = 0
  /\ sent = <<LqiRequest(undefined, 0)>>
  /\ doneCount = 0 /\ node16 = [a \in Addr16 |-> NoNode]

\* C10: a frame that carries dataConfirm while a confirmation is in flight
\* (the flag is true and the frame does not end the exchange) is answered by
\* no confirm frame.
C10_ConfirmOnlyIfIdle ==
  [][(/\ HandleStep
      /\ inbox.dataConfirm
      /\ deviceStateUpdateInProgress
      /\ inbox.type \notin {"APS_DATA_INDICATION", "APS_DATA_CONFIRM"}) =>
       OfType(sent', "APS_DATA_CONFIRM") = {}]_vars

\* The flag as the device-state check sees it: a data indication or data
\* confirm frame has just cleared it.
FlagAtCheck ==
  deviceStateUpdateInProgress /\
  inbox.type \notin {"APS_DATA_INDICATION", "APS_DATA_CONFIRM"}

DeviceStateFrames(s) ==
  OfType(s, "APS_DATA_CONFIRM") \cup OfType(s, "APS_DATA_INDICATION")

DiscoveryFrames(s) == OfType(s, "READ_PARAMETER") \cup OfType(s, "APS_DATA_REQUEST")

\* C11: a frame is answered by a fetch-indication frame exactly when it
\* carries dataIndication, does not carry dataConfirm, and the in-flight flag
\* is false at the check; it is then answered by one, and no frame is answered
\* by both a confirm and a fetch-indication.
C11_IndicationSuppressed ==
  [][HandleStep =>
       /\ (OfType(sent', "APS_DATA_INDICATION") # {}) <=>
            (inbox.dataIndication /\ ~inbox.dataConfirm /\ ~FlagAtCheck)
       /\ Cardinality(DeviceStateFrames(sent')) <= 1]_vars

C11_Witness ==
  /\ pc = "running" /\ inbox = NoFrame
  /\ deviceStateUpdateInProgress
  /\ sent = <<IndicationFrame>>

\* C12: a frame whose handling raises a fault leaves cursor, stored
\* parameters, registry, in-flight flag and completion count as they were
\* before that frame.
C12_FaultLeavesState ==
  [][(HandleStep /\ caught') =>
       UNCHANGED <<paramIdx, fields, node16, node64, deviceStateUpdateInProgress,
                   doneCount>>]_vars

\* C13: while parameters are still being read (cursor < N), no neighbor-table
\* request has been emitted by the last frame, no node is registered and the
\* run has not completed.
C13_PhaseOrder ==
  (pc = "running" /\ paramIdx < Len(PARAM)) =>
    /\ OfType(sent, "APS_DATA_REQUEST") = {}
    /\ NodesOf(node16, node64) = {}
    /\ doneCount = 0

\* C14: in the frames one inbound frame causes, a confirm or fetch-indication
\* frame comes before any read-parameter or neighbor-table request; a frame
\* carrying dataConfirm is answered by the confirm frame even when its routing
\* raises a fault.
C14_InspectBeforeRoute ==
  [][HandleStep =>
       /\ \A i \in DeviceStateFrames(sent'), j \in DiscoveryFrames(sent') : i < j
       /\ inbox.dataConfirm => (Len(sent') >= 1 /\ sent'[1] = ConfirmFrame)]_vars

C14_Witness ==
  /\ pc = "running" /\ inbox = NoFrame
  /\ sent = <<IndicationFrame, LqiRequest(undefined, 1)>>

\* C16: once the completion action has run, handling a further frame emits
\* no frame and changes neither the registry nor the cursor.
C16_DoneTerminal ==
  [][(HandleStep /\ doneCount > 0) =>
       /\ sent' = <<>>
       /\ UNCHANGED <<paramIdx, node16, node64>>]_vars

\* C18: while a confirm or fetch-indication request is outstanding (the flag
\* is true and the frame is not the data confirm or data indication that
\* answers it), no confirm and no fetch-indication frame is emitted.
C18_NoOverlap ==
  [][(HandleStep /\ FlagAtCheck) => DeviceStateFrames(sent') = {}]_vars

\* The port opened and readParameters() ran.
StartStep == pc = "constructed" /\ pc' = "running"

C19_StrictlyIncreasing ==
  [][(StartStep \/ HandleStep) =>
       \A i \in LqiRequests(sent') :
         /\ sent'[i].startIndex > lastStart
         /\ lastStart = -1 => sent'[i].startIndex = 0]_vars

\* C19 amended: a request that is not caused by a neighbor-table response is
\* for startIndex 0; a request caused by a response that answers the latest
\* request (its startIndex is the latest one requested) has a greater
\* startIndex when the response returns at least one entry, and the same
\* startIndex again when it returns none.
C19_WalkProgress ==
  [][/\ (StartStep \/ (HandleStep /\ ~IsLqiResponse(inbox))) =>
          \A i \in LqiRequests(sent') : sent'[i].startIndex = 0
     /\ (HandleStep /\ IsLqiResponse(inbox) /\ inbox.startIndex = lastStart) =>
          \A i \in LqiRequests(sent') :
            IF inbox.numEntriesThisResponse >= 1
            THEN sent'[i].startIndex > lastStart
            ELSE sent'[i].startIndex = lastStart
     /\ (StartStep \/ HandleStep) =>
          \A i \in LqiRequests(sent') : lastStart' = sent'[i].startIndex]_vars

C19_Witness ==
  /\ pc = "running" /\ inbox = NoFrame /\ ~caught
  /\ doneCount = 0
  /\ lastStart = MaxEntries - 1
  /\ sent = <<IndicationFrame, LqiRequest(undefined, MaxEntries - 1)>>

\* C17: against a coordinator that answers every read-parameter and
\* neighbor-table request with one conforming response, a started run
\* eventually completes.
C17_ReachesDone == (pc = "running") ~> (doneCount > 0)

C17_Witness ==
  /\ pc = "running" /\ inbox = NoFrame
  /\ PARAM = <<"MAC_ADDRESS", "SCAN_CHANNELS">>
  /\ paramIdx = 2 /\ readsSent = 2
  /\ lastStart = MaxEntries - 1
  /\ doneCount = 1
  /\ node16["a1"] # NoNode

====
